---- MODULE Spec2Model ----
(***************************************************************************)
(* source_checker/main.cpp: main() runs checkOneFile() on every argument.  *)
(* checkOneFile() reads the file one byte at a time and drives a state     *)
(* machine over the bytes, counting tabs, CR LF pairs, bare CRs, C0        *)
(* control characters and bad UTF-8 sequences, and printing the first      *)
(* incident of each category.                                              *)
(*                                                                         *)
(* The byte stream is the environment: every ifs.get(c) draws its outcome  *)
(* (a byte, end of stream, a read error) from the environment, and         *)
(* `consumed` records the bytes delivered so far, so that at end of        *)
(* stream `consumed` is the content of the file.                           *)
(***************************************************************************)
EXTENDS Integers, Sequences, FiniteSets, TLC

\* ------------------------------------------------------------------ bounds
\* longest file the environment delivers when one file is scanned
MaxLen == 4
\* longest file the environment delivers when several files are scanned
MaxLenMulti == 2
\* largest number of file arguments (argc - 1)
MaxArgs == 2

\* --------------------------------------------------------- program constants
TAB == 9
LF == 10
CR == 13
EXIT_SUCCESS == 0
EXIT_FAILURE == 1

\* One byte of every class the classifier tells apart: tab, LF, CR, a C0
\* control byte, a printable ASCII byte, a continuation byte, the three kinds
\* of lead byte, and a byte >= 0xF8 that belongs to no class.
Byte == {9, 10, 13, 1, 65, 128, 195, 226, 240, 248}

\* enum State
S_NORMAL == "S_NORMAL"
S_BOL == "S_BOL"
S_CR == "S_CR"
S_UTF_EXPECT3 == "S_UTF_EXPECT3"
S_UTF_EXPECT2 == "S_UTF_EXPECT2"
S_UTF_EXPECT1 == "S_UTF_EXPECT1"
State == {S_NORMAL, S_BOL, S_CR, S_UTF_EXPECT3, S_UTF_EXPECT2, S_UTF_EXPECT1}

\* the messages of the incident lines
MsgTab == "Tab character"
MsgBadUtf == "Bad multibyte sequence"
MsgCtl == "Unexpected control character"
MsgCrLf == "Windows newline sequence (CR,LF)"
MsgCr == "Old-time MacOS newline sequence (CR)"
MsgEol == "Missing EOL at end of file"

VARIABLES
    argc,           \* number of file arguments (argc - 1 of main)
    i,              \* main's loop index, counted from 0
    exit_code,      \* -1 while main runs, then the value main returned
    pc,             \* position in main / checkOneFile
    opened,         \* ifs.is_open() of the current scan
    iostate,        \* flags of ifs: subset of {"eofbit", "failbit", "badbit"}
    c,              \* the local `char c`, as an unsigned value 0..255
    fresh,          \* TRUE iff c holds a byte the last get(c) delivered
    trans,          \* times the switch was entered since the last get(c)
    ss,             \* state variable of the state machine
    line_count, tab_count, crlf_count, cr_count, c1_count, bad_utf_count,
    out,            \* incident lines printed since "Checking <file>": <<msg, line>>
    consumed,       \* bytes the stream delivered in the current scan
    before,         \* ss and the counters as they were when get(c) was called
    res             \* value returned by checkOneFile, read at pc = "returned"

vars == <<argc, i, exit_code, pc, opened, iostate, c, fresh, trans, ss,
          line_count, tab_count, crlf_count, cr_count, c1_count, bad_utf_count,
          out, consumed, before, res>>

counters == <<line_count, tab_count, crlf_count, cr_count, c1_count, bad_utf_count>>
mainvars == <<argc, i, exit_code>>

\* ------------------------------------------------------------ pure functions
\* c & mask for the masks that keep the top k bits of a byte
TopBits(b, low) == (b \div low) * low

\* (c & 0xc0) == 0x80
isUtf8Trailer(b) == TopBits(b, 64) = 128
\* (c & 0xe0) == 0xc0
isUtf8Header1(b) == TopBits(b, 32) = 192
\* (c & 0xf0) == 0xe0
isUtf8Header2(b) == TopBits(b, 16) = 224
\* (mutation of isUtf8Header3: the mask 0xf0 in place of 0xf8)
isUtf8Header3_WideMask(b) == TopBits(b, 16) = 240

\* (c & 0xf8) == 0xf0
isUtf8Header3(b) == TopBits(b, 8) = 240

\* report(): the line is printed only when the counter is exactly 1
report(o, incident_count, msg, lc) ==
    IF incident_count = 1 THEN Append(o, <<msg, lc + 1>>) ELSE o

\* ss and the six counters, as one record
Snapshot ==
    [ss |-> ss, line |-> line_count, tab |-> tab_count, crlf |-> crlf_count,
     cr |-> cr_count, c1 |-> c1_count, bad |-> bad_utf_count]

\* the longest file of this run
Limit == IF argc <= 1 THEN MaxLen ELSE MaxLenMulti

\* ifstream::operator bool() and ifstream::eof()
good(st) == "failbit" \notin st /\ "badbit" \notin st
eof(st) == "eofbit" \in st

\* --------------------------------------------------------------------- Init
Init ==
    /\ argc \in 0..MaxArgs
    /\ i = 0
    /\ exit_code = -1
    /\ pc = "main"
    /\ opened = FALSE
    /\ iostate = {}
    /\ c = 0
    /\ fresh = FALSE
    /\ trans = 0
    /\ ss = S_BOL
    /\ line_count = 0 /\ tab_count = 0 /\ crlf_count = 0
    /\ cr_count = 0 /\ c1_count = 0 /\ bad_utf_count = 0
    /\ out = <<>>
    /\ consumed = <<>>
    /\ before = Snapshot
    /\ res = TRUE

\* --------------------------------------------------------------------- main
\* (mutation of MainLoop: the scan goes on although is_open() is false)
MainLoop_OpenUnchecked ==
    /\ pc = "main"
    /\ i < argc
    /\ out' = <<>>
    /\ consumed' = <<>>
    /\ before' = [ss |-> S_BOL, line |-> 0, tab |-> 0, crlf |-> 0, cr |-> 0,
                  c1 |-> 0, bad |-> 0]
    /\ opened' \in BOOLEAN
    /\ pc' = "get"
    /\ iostate' = {}
    /\ line_count' = 0 /\ tab_count' = 0 /\ crlf_count' = 0
    /\ cr_count' = 0 /\ c1_count' = 0 /\ bad_utf_count' = 0
    /\ ss' = S_BOL
    /\ UNCHANGED <<mainvars, c, fresh, trans, res>>

\* (mutation of MainLoop: the counters and ss outlive the scan of a file, as
\* static or global variables would)
MainLoop_KeepsCounters ==
    /\ pc = "main"
    /\ i < argc
    /\ out' = <<>>
    /\ consumed' = <<>>
    /\ before' = [ss |-> S_BOL, line |-> 0, tab |-> 0, crlf |-> 0, cr |-> 0,
                  c1 |-> 0, bad |-> 0]
    /\ \E ok \in BOOLEAN :
         /\ opened' = ok
         /\ IF ok
              THEN /\ pc' = "get"
                   /\ res' = res
                   /\ iostate' = {}
              ELSE /\ pc' = "returned"
                   /\ res' = FALSE
                   /\ iostate' = iostate
    /\ UNCHANGED <<mainvars, c, fresh, trans, counters, ss>>

\* for (i = 1; i < argc; i++) { res = checkOneFile(argv[i]); ...
\* and the call's first statements: the "Checking" line and the open.
\* A file that cannot be opened returns false at once.
MainLoop ==
    /\ pc = "main"
    /\ i < argc
    /\ out' = <<>>
    /\ consumed' = <<>>
    /\ before' = [ss |-> S_BOL, line |-> 0, tab |-> 0, crlf |-> 0, cr |-> 0,
                  c1 |-> 0, bad |-> 0]
    /\ \E ok \in BOOLEAN :
         /\ opened' = ok
         /\ IF ok
              THEN /\ pc' = "get"
                   /\ res' = res
                   /\ iostate' = {}
                   /\ line_count' = 0 /\ tab_count' = 0 /\ crlf_count' = 0
                   /\ cr_count' = 0 /\ c1_count' = 0 /\ bad_utf_count' = 0
                   /\ ss' = S_BOL
              ELSE /\ pc' = "returned"
                   /\ res' = FALSE
                   /\ UNCHANGED <<iostate, counters, ss>>
    /\ UNCHANGED <<mainvars, c, fresh, trans>>

\* the loop ends: return EXIT_SUCCESS
MainExit ==
    /\ pc = "main"
    /\ i >= argc
    /\ exit_code' = EXIT_SUCCESS
    /\ pc' = "exit"
    /\ UNCHANGED <<argc, i, opened, iostate, c, fresh, trans, ss, counters,
                   out, consumed, before, res>>

\* (mutation of MainAfterCall: the failure of a scan is not acted upon)
MainAfterCall_Continues ==
    /\ pc = "returned"
    /\ i' = i + 1
    /\ pc' = "main"
    /\ UNCHANGED <<argc, exit_code, opened, iostate, c, fresh, trans, ss, counters,
                   out, consumed, before, res>>

\* if (! res) return EXIT_FAILURE;  else i++
MainAfterCall ==
    /\ pc = "returned"
    /\ IF res = FALSE
         THEN /\ exit_code' = EXIT_FAILURE
              /\ pc' = "exit"
              /\ i' = i
         ELSE /\ i' = i + 1
              /\ pc' = "main"
              /\ exit_code' = exit_code
    /\ UNCHANGED <<argc, opened, iostate, c, fresh, trans, ss, counters,
                   out, consumed, before, res>>

\* ------------------------------------------------------------- checkOneFile
\* while (ifs) { char c; ifs.get(c);
\* get(c) stores a byte in c, or fails and leaves c as it was: c is a fresh
\* uninitialized local of the loop body, so after a failed get its value is
\* indeterminate (any byte).  The switch runs in both cases.
Get ==
    /\ pc = "get"
    /\ good(iostate)
    /\ \/ \E b \in Byte :
            /\ Len(consumed) < Limit
            /\ c' = b
            /\ fresh' = TRUE
            /\ consumed' = Append(consumed, b)
            /\ iostate' = iostate
       \/ \E v \in Byte, bits \in {{"eofbit", "failbit"}, {"badbit", "failbit"}} :
            /\ c' = v
            /\ fresh' = FALSE
            /\ consumed' = consumed
            /\ iostate' = bits
    /\ trans' = 0
    /\ before' = Snapshot
    /\ pc' = "switch"
    /\ UNCHANGED <<mainvars, opened, ss, counters, out, res>>

\* case S_BOL: ss = S_NORMAL; (fall through)  case S_NORMAL: switch(c) ...
SwitchNormal ==
    /\ pc = "switch"
    /\ ss \in {S_BOL, S_NORMAL}
    /\ trans' = trans + 1
    /\ pc' = "get"
    /\ IF c = LF THEN
           /\ line_count' = line_count + 1
           /\ ss' = S_BOL
           /\ UNCHANGED <<tab_count, bad_utf_count, c1_count, out>>
       ELSE IF c = CR THEN
           /\ ss' = S_CR
           /\ UNCHANGED <<line_count, tab_count, bad_utf_count, c1_count, out>>
       ELSE IF c = TAB THEN
           /\ tab_count' = tab_count + 1
           /\ out' = report(out, tab_count + 1, MsgTab, line_count)
           /\ ss' = S_NORMAL
           /\ UNCHANGED <<line_count, bad_utf_count, c1_count>>
       ELSE IF isUtf8Header3(c) THEN
           /\ ss' = S_UTF_EXPECT3
           /\ UNCHANGED <<line_count, tab_count, bad_utf_count, c1_count, out>>
       ELSE IF isUtf8Header2(c) THEN
           /\ ss' = S_UTF_EXPECT2
           /\ UNCHANGED <<line_count, tab_count, bad_utf_count, c1_count, out>>
       ELSE IF isUtf8Header1(c) THEN
           /\ ss' = S_UTF_EXPECT1
           /\ UNCHANGED <<line_count, tab_count, bad_utf_count, c1_count, out>>
       ELSE IF isUtf8Trailer(c) THEN
           /\ bad_utf_count' = bad_utf_count + 1
           /\ out' = report(out, bad_utf_count + 1, MsgBadUtf, line_count)
           /\ ss' = S_NORMAL
           /\ UNCHANGED <<line_count, tab_count, c1_count>>
       ELSE IF c < 32 THEN
           /\ c1_count' = c1_count + 1
           /\ out' = report(out, c1_count + 1, MsgCtl, line_count)
           /\ ss' = S_NORMAL
           /\ UNCHANGED <<line_count, tab_count, bad_utf_count>>
       ELSE
           /\ ss' = S_NORMAL
           /\ UNCHANGED <<line_count, tab_count, bad_utf_count, c1_count, out>>
    /\ UNCHANGED <<mainvars, opened, iostate, c, fresh, crlf_count, cr_count,
                   consumed, before, res>>

\* (mutation of SwitchCR: ss = S_BOL is missing before goto reenter_point)
SwitchCR_NoStateChange ==
    /\ pc = "switch"
    /\ ss = S_CR
    /\ trans' = trans + 1
    /\ IF c = LF THEN
           /\ crlf_count' = crlf_count + 1
           /\ out' = report(out, crlf_count + 1, MsgCrLf, line_count)
           /\ pc' = "get"
           /\ ss' = S_BOL
           /\ UNCHANGED cr_count
       ELSE
           /\ cr_count' = cr_count + 1
           /\ out' = report(out, cr_count + 1, MsgCr, line_count)
           /\ pc' = "switch"
           /\ ss' = S_CR
           /\ UNCHANGED crlf_count
    /\ line_count' = line_count + 1
    /\ UNCHANGED <<mainvars, opened, iostate, c, fresh, tab_count, c1_count,
                   bad_utf_count, consumed, before, res>>

\* case S_CR: CR LF, or a bare CR followed by goto reenter_point
SwitchCR ==
    /\ pc = "switch"
    /\ ss = S_CR
    /\ trans' = trans + 1
    /\ IF c = LF THEN
           /\ crlf_count' = crlf_count + 1
           /\ out' = report(out, crlf_count + 1, MsgCrLf, line_count)
           /\ pc' = "get"
           /\ UNCHANGED cr_count
       ELSE
           /\ cr_count' = cr_count + 1
           /\ out' = report(out, cr_count + 1, MsgCr, line_count)
           /\ pc' = "switch"
           /\ UNCHANGED crlf_count
    /\ line_count' = line_count + 1
    /\ ss' = S_BOL
    /\ UNCHANGED <<mainvars, opened, iostate, c, fresh, tab_count, c1_count,
                   bad_utf_count, consumed, before, res>>

\* the state a continuation byte leads to from S_UTF_EXPECT3/2/1
AfterTrailer(s) ==
    CASE s = S_UTF_EXPECT3 -> S_UTF_EXPECT2
      [] s = S_UTF_EXPECT2 -> S_UTF_EXPECT1
      [] s = S_UTF_EXPECT1 -> S_NORMAL

\* case S_UTF_EXPECT3, S_UTF_EXPECT2, S_UTF_EXPECT1
SwitchExpect ==
    /\ pc = "switch"
    /\ ss \in {S_UTF_EXPECT3, S_UTF_EXPECT2, S_UTF_EXPECT1}
    /\ trans' = trans + 1
    /\ pc' = "get"
    /\ IF isUtf8Trailer(c) THEN
           /\ ss' = AfterTrailer(ss)
           /\ UNCHANGED <<bad_utf_count, out>>
       ELSE
           /\ bad_utf_count' = bad_utf_count + 1
           /\ out' = report(out, bad_utf_count + 1, MsgBadUtf, line_count)
           /\ ss' = S_NORMAL
    /\ UNCHANGED <<mainvars, opened, iostate, c, fresh, line_count, tab_count,
                   crlf_count, cr_count, c1_count, consumed, before, res>>

\* (mutation of Verdict: the stream's failed state is tested instead of eof)
Verdict_TestsFail(st) == good(st)

\* value returned after the loop: false unless ifs.eof()
Verdict(st) == eof(st)

\* after the loop: Missing EOL unless ss == S_BOL, then the eof() test.
\* The loop body's local c is out of scope here.
AfterLoop ==
    /\ pc = "get"
    /\ ~good(iostate)
    /\ out' = IF ss # S_BOL THEN report(out, 1, MsgEol, line_count) ELSE out
    /\ res' = Verdict(iostate)
    /\ pc' = "returned"
    /\ c' = 0 /\ fresh' = FALSE /\ trans' = 0
    /\ UNCHANGED <<mainvars, opened, iostate, ss, counters, consumed, before>>

\* ------------------------------------------- checkOneFile as a function
\* The same code read as a function of the bytes, for the statements that
\* compare the scans of equal byte streams.  A scan state is ss, the six
\* counters and the lines printed.
FreshScan ==
    [ss |-> S_BOL, line |-> 0, tab |-> 0, crlf |-> 0, cr |-> 0, c1 |-> 0,
     bad |-> 0, out |-> <<>>]

\* case S_BOL / case S_NORMAL on byte b
NormalCase(st, b) ==
    IF b = LF THEN [st EXCEPT !.line = @ + 1, !.ss = S_BOL]
    ELSE IF b = CR THEN [st EXCEPT !.ss = S_CR]
    ELSE IF b = TAB THEN
        [st EXCEPT !.tab = @ + 1, !.ss = S_NORMAL,
                   !.out = report(@, st.tab + 1, MsgTab, st.line)]
    ELSE IF isUtf8Header3(b) THEN [st EXCEPT !.ss = S_UTF_EXPECT3]
    ELSE IF isUtf8Header2(b) THEN [st EXCEPT !.ss = S_UTF_EXPECT2]
    ELSE IF isUtf8Header1(b) THEN [st EXCEPT !.ss = S_UTF_EXPECT1]
    ELSE IF isUtf8Trailer(b) THEN
        [st EXCEPT !.bad = @ + 1, !.ss = S_NORMAL,
                   !.out = report(@, st.bad + 1, MsgBadUtf, st.line)]
    ELSE IF b < 32 THEN
        [st EXCEPT !.c1 = @ + 1, !.ss = S_NORMAL,
                   !.out = report(@, st.c1 + 1, MsgCtl, st.line)]
    ELSE [st EXCEPT !.ss = S_NORMAL]

\* case S_CR on byte b, with the jump back to reenter_point
CrCase(st, b) ==
    IF b = LF THEN
        [st EXCEPT !.crlf = @ + 1, !.line = @ + 1, !.ss = S_BOL,
                   !.out = report(@, st.crlf + 1, MsgCrLf, st.line)]
    ELSE
        NormalCase([st EXCEPT !.cr = @ + 1, !.line = @ + 1, !.ss = S_BOL,
                              !.out = report(@, st.cr + 1, MsgCr, st.line)], b)

\* case S_UTF_EXPECT3/2/1 on byte b
ExpectCase(st, b) ==
    IF isUtf8Trailer(b) THEN [st EXCEPT !.ss = AfterTrailer(st.ss)]
    ELSE [st EXCEPT !.bad = @ + 1, !.ss = S_NORMAL,
                    !.out = report(@, st.bad + 1, MsgBadUtf, st.line)]

\* one pass of the loop body on the value b of c
Dispatch(st, b) ==
    IF st.ss \in {S_BOL, S_NORMAL} THEN NormalCase(st, b)
    ELSE IF st.ss = S_CR THEN CrCase(st, b)
    ELSE ExpectCase(st, b)

\* the loop body run on the first k bytes of s
RECURSIVE DispatchAll(_, _)
DispatchAll(s, k) ==
    IF k = 0 THEN FreshScan ELSE Dispatch(DispatchAll(s, k - 1), s[k])

\* the statement after the loop
MissingEol(st) ==
    IF st.ss # S_BOL THEN [st EXCEPT !.out = report(@, 1, MsgEol, st.line)] ELSE st

\* the scan of the bytes s alone, when c reads as v in the pass of the loop
\* body that follows the failed get(c)
ScanAlone(s, v) == MissingEol(Dispatch(DispatchAll(s, Len(s)), v))

\* the scan state of the running scan
ScanNow ==
    [ss |-> ss, line |-> line_count, tab |-> tab_count, crlf |-> crlf_count,
     cr |-> cr_count, c1 |-> c1_count, bad |-> bad_utf_count, out |-> out]

Next ==
    \/ MainLoop
    \/ MainExit
    \/ MainAfterCall
    \/ Get
    \/ SwitchNormal
    \/ SwitchCR
    \/ SwitchExpect
    \/ AfterLoop

Spec == Init /\ [][Next]_vars

\* The runs over several files (their files are at most MaxLenMulti bytes
\* long, which lets every state of the machine meet every byte).  The program
\* is sequential: as long as a statement is left to run, it runs.
InitSeveral == Init /\ argc >= 2
FairSpec == InitSeveral /\ [][Next]_vars /\ WF_vars(Next)

TypeOK ==
    /\ argc \in 0..MaxArgs /\ i \in 0..MaxArgs
    /\ exit_code \in {-1, EXIT_SUCCESS, EXIT_FAILURE}
    /\ pc \in {"main", "get", "switch", "returned", "exit"}
    /\ opened \in BOOLEAN /\ fresh \in BOOLEAN
    /\ iostate \subseteq {"eofbit", "failbit", "badbit"}
    /\ c \in 0..255
    /\ trans \in 0..2
    /\ ss \in State
    /\ res \in BOOLEAN
    /\ Len(consumed) <= MaxLen
\* ======================================================================
\* The file and the output as the specification describes them
\* ======================================================================
Inc(p) == IF p THEN 1 ELSE 0

\* byte classes by value
Continuation == 128..191
Lead1 == 192..223
Lead2 == 224..239
Lead3 == 240..247
PrintableAscii == 32..126
IsC0(b) == b < 32 /\ b \notin {TAB, LF, CR}
Expecting == {S_UTF_EXPECT3, S_UTF_EXPECT2, S_UTF_EXPECT1}

\* number of bytes b in s
Occurrences(s, b) == Cardinality({k \in 1..Len(s) : s[k] = b})

\* number of line terminators in s: every CR, and every LF that does not
\* follow a CR (CR LF is one terminator)
Terminators(s) ==
    Cardinality({k \in 1..Len(s) :
                    \/ s[k] = CR
                    \/ s[k] = LF /\ (k = 1 \/ s[k - 1] # CR)})

\* CR LF pairs, and CRs that no LF follows
CrLfPairs(s) == Cardinality({k \in 1..Len(s) - 1 : s[k] = CR /\ s[k + 1] = LF})
BareCrs(s) ==
    Cardinality({k \in 1..Len(s) : s[k] = CR /\ (k = Len(s) \/ s[k + 1] # LF)})
C0Bytes(s) == Cardinality({k \in 1..Len(s) : IsC0(s[k])})

\* index of the first byte b of s (s holds one)
First(s, b) == CHOOSE k \in 1..Len(s) : s[k] = b /\ \A j \in 1..(k - 1) : s[j] # b

\* the lines of `out` that carry msg
Printed(msg) == {k \in 1..Len(out) : out[k][1] = msg}

\* the state the table of the state machine gives for byte b read as
\* ordinary text in NORMAL state
OrdinaryState(b) ==
    IF b = LF THEN S_BOL
    ELSE IF b = CR THEN S_CR
    ELSE IF b \in Lead3 THEN S_UTF_EXPECT3
    ELSE IF b \in Lead2 THEN S_UTF_EXPECT2
    ELSE IF b \in Lead1 THEN S_UTF_EXPECT1
    ELSE S_NORMAL

\* number of continuation bytes a lead byte announces (0: not a lead byte)
Announced(b) ==
    IF b \in Lead1 THEN 1 ELSE IF b \in Lead2 THEN 2 ELSE IF b \in Lead3 THEN 3 ELSE 0

\* s[k..] is made only of well-formed multibyte sequences, printable ASCII
\* bytes and LF
RECURSIVE WellFormedFrom(_, _)
WellFormedFrom(s, k) ==
    IF k > Len(s) THEN TRUE
    ELSE IF s[k] = LF \/ s[k] \in PrintableAscii THEN WellFormedFrom(s, k + 1)
    ELSE IF Announced(s[k]) = 0 THEN FALSE
    ELSE /\ k + Announced(s[k]) <= Len(s)
         /\ \A j \in (k + 1)..(k + Announced(s[k])) : s[j] \in Continuation
         /\ WellFormedFrom(s, k + Announced(s[k]) + 1)

\* a scan of an opened file has returned
ScanEnded == pc = "returned" /\ opened
\* ... after reading the file to its end: `consumed` is the file
FileRead == ScanEnded /\ eof(iostate)
\* the byte c that get(c) delivered has been handled; the next get is due
ByteDone == pc = "get" /\ fresh

\* ======================================================================
\* Claims
\* ======================================================================

\* C1: for every file that contains a tab byte, exactly one "Tab character"
\* line is printed, and its line number is 1 + the number of line
\* terminators that precede the file's first tab.
C1_FirstTabReported ==
    (FileRead /\ Occurrences(consumed, TAB) > 0) =>
        /\ Cardinality(Printed(MsgTab)) = 1
        /\ \A k \in Printed(MsgTab) :
             out[k][2] = 1 + Terminators(SubSeq(consumed, 1, First(consumed, TAB) - 1))

\* C2: for every file made only of well-formed multibyte sequences, printable
\* ASCII bytes and LF, the bad-UTF8 counter is 0 when the scan ends and no
\* "Bad multibyte sequence" line is printed.
C2_WellFormedNoBadUtf ==
    (FileRead /\ WellFormedFrom(consumed, 1)) =>
        (bad_utf_count = 0 /\ Printed(MsgBadUtf) = {})

\* C3: when a byte that is no continuation byte is read in EXPECT_3/2/1
\* state, exactly one bad-UTF8 incident is counted and the byte then has the
\* effect it has as ordinary text in NORMAL state (line counter, tab
\* incident, CR handling, new sequence, C0 incident).
C3_BrokenSequenceReprocessed ==
    (ByteDone /\ before.ss \in Expecting /\ c \notin Continuation) =>
        /\ bad_utf_count = before.bad + 1
        /\ ss = OrdinaryState(c)
        /\ line_count = before.line + Inc(c = LF)
        /\ tab_count = before.tab + Inc(c = TAB)
        /\ c1_count = before.c1 + Inc(IsC0(c))
        /\ crlf_count = before.crlf
        /\ cr_count = before.cr
\* the last two bytes the stream delivered are x, y
EndsWith(x, y) ==
    /\ Len(consumed) >= 2
    /\ consumed[Len(consumed) - 1] = x
    /\ consumed[Len(consumed)] = y

\* C4: a CR immediately followed by LF counts exactly one CRLF incident and
\* no bare-CR incident, advances the line counter by exactly 1 and leaves
\* the machine in BEGIN_OF_LINE; the file A CR LF B prints the "Windows
\* newline sequence (CR,LF)" line exactly once.
C4_CrLfIsOneTerminator ==
    /\ (ByteDone /\ EndsWith(CR, LF)) =>
          /\ crlf_count = before.crlf + 1
          /\ cr_count = before.cr
          /\ line_count = before.line + 1
          /\ ss = S_BOL
    /\ (FileRead /\ consumed = <<65, CR, LF, 65>>) =>
          Cardinality(Printed(MsgCrLf)) = 1

\* C5: a CR followed by a byte b other than LF counts exactly one bare-CR
\* incident, advances the line counter by exactly 1, and b is then classified
\* once as ordinary text in NORMAL state, the switch being entered at most
\* twice for b and no byte being read in between.
C5_BareCrReconsumes ==
    (ByteDone /\ Len(consumed) >= 2 /\ consumed[Len(consumed) - 1] = CR /\ c # LF) =>
        /\ cr_count = before.cr + 1
        /\ crlf_count = before.crlf
        /\ line_count = before.line + 1
        /\ ss = OrdinaryState(c)
        /\ tab_count = before.tab + Inc(c = TAB)
        /\ c1_count = before.c1 + Inc(IsC0(c))
        /\ bad_utf_count = before.bad + Inc(c \in Continuation)
        /\ trans <= 2
        /\ c = consumed[Len(consumed)]

\* C6: for every non-empty file whose last byte is no line terminator exactly
\* one "Missing EOL at end of file" line is printed; in every scan the line
\* is printed at most once, and only when the final state is not
\* BEGIN_OF_LINE.
C6_MissingEolReported ==
    /\ (FileRead /\ Len(consumed) > 0 /\ consumed[Len(consumed)] \notin {LF, CR}) =>
          Cardinality(Printed(MsgEol)) = 1
    /\ ScanEnded =>
          /\ Cardinality(Printed(MsgEol)) <= 1
          /\ Printed(MsgEol) # {} => ss # S_BOL

\* C7: for every file of 7-bit ASCII bytes whose only bytes below 0x20 are
\* LF, no incident line is printed.
C7_CleanAsciiNoIncident ==
    (FileRead /\ \A k \in 1..Len(consumed) :
                    consumed[k] = LF \/ consumed[k] \in 32..127) =>
        out = <<>>

\* C8: every category's message is printed exactly when its counter goes
\* from 0 to 1, hence at most once per file, and the counter at the end of
\* the scan equals the number of occurrences of the category in the file
\* (tab bytes, CR LF pairs, CRs without LF, C0 control bytes).
C8_CountersCountOccurrences ==
    FileRead =>
        /\ Cardinality(Printed(MsgTab)) = Inc(tab_count >= 1)
        /\ Cardinality(Printed(MsgCrLf)) = Inc(crlf_count >= 1)
        /\ Cardinality(Printed(MsgCr)) = Inc(cr_count >= 1)
        /\ Cardinality(Printed(MsgCtl)) = Inc(c1_count >= 1)
        /\ Cardinality(Printed(MsgBadUtf)) = Inc(bad_utf_count >= 1)
        /\ tab_count = Occurrences(consumed, TAB)
        /\ crlf_count = CrLfPairs(consumed)
        /\ cr_count = BareCrs(consumed)
        /\ c1_count = C0Bytes(consumed)

\* C9: a continuation byte read in NORMAL or BEGIN_OF_LINE state counts
\* exactly one bad-UTF8 incident and leaves the machine in NORMAL; the scan
\* of the file that is the single byte 0x80 ends with bad-UTF8 counter 1.
C9_StrayContinuation ==
    /\ (ByteDone /\ before.ss \in {S_NORMAL, S_BOL} /\ c \in Continuation) =>
          (bad_utf_count = before.bad + 1 /\ ss = S_NORMAL)
    /\ (FileRead /\ consumed = <<128>>) => bad_utf_count = 1

\* an I/O failure: the file could not be opened, or a read failed
IoFailure == ~opened \/ "badbit" \in iostate

\* C10: checkOneFile returns false if and only if an I/O failure occurred,
\* whatever incidents were counted.
C10_VerdictIsIoOnly ==
    pc = "returned" => (res = FALSE <=> IoFailure)

\* a read failed after incidents were printed, and the scan returned false
C10_Witness ==
    /\ pc = "returned" /\ opened /\ "badbit" \in iostate
    /\ res = FALSE /\ Len(out) >= 2 /\ tab_count >= 1
\* C11 (as claimed): every argument is scanned, whatever the outcome of the
\* scans before it: when main returns, as many scans have been run as there
\* are arguments.
C11_EveryArgumentScanned ==
    pc = "exit" => i + Inc(exit_code = EXIT_FAILURE) = argc

\* C11 (amended): the arguments are scanned in order up to the first scan
\* that meets an I/O failure; main then returns EXIT_FAILURE at once, leaving
\* the later arguments unscanned. It returns EXIT_SUCCESS exactly when every
\* argument was scanned without I/O failure (also with no argument).
C11_ScansUntilFirstFailure ==
    /\ pc \in {"get", "switch", "returned"} => i < argc
    /\ pc = "exit" =>
          \/ /\ exit_code = EXIT_SUCCESS
             /\ i = argc
             /\ argc > 0 => (res = TRUE /\ ~IoFailure)
          \/ /\ exit_code = EXIT_FAILURE
             /\ i < argc
             /\ res = FALSE
             /\ IoFailure

\* main has returned failure after the first of two arguments
C11_Witness ==
    pc = "exit" /\ exit_code = EXIT_FAILURE /\ argc = 2 /\ i = 0
\* C12: the scan of a path that cannot be opened returns false without
\* reading a byte, counting an incident or printing an incident line, and
\* main then returns EXIT_FAILURE.
C12_OpenFailure ==
    /\ [](~opened => pc \notin {"get", "switch"})
    /\ []((pc = "returned" /\ ~opened) =>
             (res = FALSE /\ out = <<>> /\ consumed = <<>>))
    /\ [][(pc = "main" /\ i < argc /\ ~opened') =>
             (pc' = "returned" /\ UNCHANGED counters)]_vars
    /\ [][(pc = "returned" /\ ~opened) =>
             (pc' = "exit" /\ exit_code' = EXIT_FAILURE)]_vars

\* the second argument could not be opened and main has returned failure
C12_Witness ==
    /\ pc = "exit" /\ ~opened /\ argc = 2 /\ i = 1
    /\ exit_code = EXIT_FAILURE /\ out = <<>> /\ consumed = <<>>
\* C13: the scan is determined by the bytes of the file: every scan of the
\* same byte stream ends with the same printed lines, counters and state as
\* this one, and returns the same value.
C13_Deterministic ==
    FileRead =>
        /\ \A v \in Byte : ScanNow = ScanAlone(consumed, v)
        /\ res = TRUE

\* C14: the switch runs only on a byte that get(c) has just delivered, once
\* per byte, and a second time for the same byte only after a bare CR.
C14_EveryByteClassifiedOnce ==
    /\ pc = "switch" => fresh
    /\ pc = "switch" => trans <= 1
    /\ (pc = "switch" /\ trans = 1) => before.ss = S_CR
    /\ (pc = "get" /\ fresh) => trans = 1 + Inc(before.ss = S_CR /\ c # LF)

\* C15: at every point of the scan and at its end the line counter equals
\* the number of line terminators (LF, CR, CR LF) among the bytes consumed
\* so far; a CR just read, which the next byte may complete to CR LF, is
\* counted when that byte is handled.
C15_LineCounterCountsTerminators ==
    (ByteDone \/ FileRead) =>
        line_count + Inc(ss = S_CR) = Terminators(consumed)

\* C16: the scan of an empty stream makes no transition: the state stays
\* BEGIN_OF_LINE, the counters stay 0, nothing is printed and the scan
\* returns true.
C16_EmptyStream ==
    (FileRead /\ consumed = <<>>) =>
        /\ ScanNow = FreshScan
        /\ res = TRUE
C18_C0ControlCounted ==
    (ByteDone /\ IsC0(c)) =>
        /\ c1_count = before.c1 + 1
        /\ ss = S_NORMAL
        /\ tab_count = before.tab
        /\ crlf_count = before.crlf
        /\ bad_utf_count = before.bad
        /\ cr_count = before.cr + Inc(before.ss = S_CR)
        /\ Printed(MsgCtl) # {}

\* number of the four byte-class tests that byte b passes
ClassesOf(b) ==
    Inc(isUtf8Header1(b)) + Inc(isUtf8Header2(b)) + Inc(isUtf8Header3(b))
        + Inc(isUtf8Trailer(b))

\* C19: ss is always one of the six states and the switch has a case for it
\* (the default branch is never taken); no byte 0x00..0xFF passes two of the
\* four byte-class tests, the bytes 0xF8..0xFF pass none, and such a byte
\* read in NORMAL or BEGIN_OF_LINE state leaves the machine in NORMAL and
\* counts nothing.
C19_TransitionTotal ==
    /\ ss \in State
    /\ pc = "switch" =>
          (c \in 0..255 /\ ENABLED (SwitchNormal \/ SwitchCR \/ SwitchExpect))
    /\ (pc = "main" /\ i = 0) =>
          /\ \A b \in 0..255 : ClassesOf(b) <= 1
          /\ \A b \in 248..255 : ClassesOf(b) = 0
    /\ (ByteDone /\ before.ss \in {S_NORMAL, S_BOL} /\ c \in 248..255) =>
          Snapshot = [before EXCEPT !.ss = S_NORMAL]

\* the byte 0xF8 has been read in NORMAL state after another byte
C19_Witness ==
    /\ ByteDone /\ c = 248 /\ before.ss = S_NORMAL /\ ss = S_NORMAL
    /\ Len(consumed) = 2 /\ out = <<>>
\* C20: the scan of every finite stream terminates and main returns.  The
\* switch is entered at most twice for one get(c): the jump back to
\* reenter_point is taken only from S_CR, and the pass that follows it runs
\* in S_BOL, which never jumps back.
C20_ScanTerminates ==
    /\ [](trans <= 2)
    /\ []((pc = "switch" /\ trans >= 1) => (ss = S_BOL /\ before.ss = S_CR))
    /\ [][(pc = "switch" /\ pc' = "switch") => (ss = S_CR /\ ss' = S_BOL)]_vars
    /\ <>(pc = "exit")

\* the switch has been entered twice for the byte that follows a bare CR
C20_Witness ==
    /\ ByteDone /\ trans = 2 /\ before.ss = S_CR
    /\ consumed = <<CR, 65>> /\ cr_count = 1
====
